---- MODULE Spec2Model ----
(***************************************************************************)
(* The konnectivity Agent resource of kamaji                               *)
(* (internal/resources/konnectivity/agent.go): the in-memory DaemonSet it  *)
(* builds, the tenant cluster's object store it writes to, and the         *)
(* TenantControlPlane (spec and status) it reads and reports into.         *)
(*                                                                         *)
(* Strings that the code composes or parses are sequences of tokens, so    *)
(* that fmt.Sprintf, strings.SplitN and the argument helpers are modelled  *)
(* by what they do.  Go maps are functions; a nil map and an empty map are *)
(* the same value, as they are for equality.Semantic.DeepEqual and after a *)
(* round trip through the API server.                                      *)
(***************************************************************************)
EXTENDS Integers, Sequences, FiniteSets, TLC

VARIABLES
    addon,          \* tenantControlPlane.Spec.Addons.Konnectivity (NoAddon = nil)
    address,        \* the control plane's assigned address ("" = not assigned)
    agentStatus,    \* tenantControlPlane.Status.Addons.Konnectivity.Agent
    crbName,        \* ...Status.Addons.Konnectivity.ClusterRoleBinding.Name
    now,            \* the wall clock read by metav1.Now()
    resource,       \* Agent.resource (NilResource before the first Define)
    tenantClient,   \* Agent.tenantClient ("nil" or the tenant's client)
    store,          \* the tenant cluster's object store, by object key
    ret,            \* what the last call returned (op "env": no call since)
    deleteIssued,   \* a Delete was sent to the store since the add-on was last enabled
    pc,             \* the orchestrator's position in its reconcile pass
    fleet           \* FleetSpec: the Agents of concurrent passes and their tenants' stores

vars == <<addon, address, agentStatus, crbName, now, resource, tenantClient,
          store, ret, deleteIssued, pc, fleet>>

-----------------------------------------------------------------------------
(* Bounds of the model *)

\* the clock takes the values 1..MaxClock
MaxClock == 2

\* the largest resourceVersion the store hands out
MaxRV == 2

-----------------------------------------------------------------------------
(* Package constants and values of the control plane *)

AgentName == "konnectivity-agent"

AgentNamespace == "kube-system"

agentTokenName == "konnectivity-agent-token"

GetName == "konnectivity-agent"

TcpName == "tenant-1"

ResolvedAddress == "10.0.0.1"

EmptyMap == [k \in {} |-> ""]

\* b's entries win over a's, as in MergeMaps(a, b)
MergeMaps(a, b) == [k \in (DOMAIN a) \cup (DOMAIN b) |-> IF k \in DOMAIN b THEN b[k] ELSE a[k]]

KamajiLabels(tcpName, resourceName) ==
    [k \in {"kamaji.clastix.io/name", "kamaji.clastix.io/component", "kamaji.clastix.io/project"} |->
        CASE k = "kamaji.clastix.io/name" -> tcpName
          [] k = "kamaji.clastix.io/component" -> resourceName
          [] OTHER -> "kamaji"]

-----------------------------------------------------------------------------
(* Arguments.  An argument string "flag=value" is the token sequence        *)
(* <<flag, "=", value...>>; a bare "flag" is <<flag>>.                       *)

\* every flag of the model, in the byte order sort.Strings gives them
FlagOrder == <<"--admin-server-port", "--agent-id", "--ca-cert", "--health-server-port",
               "--logtostderr", "--proxy-server-host", "--proxy-server-port",
               "--service-account-token-path", "--sync-interval", "-v">>

\* strings.SplitN(arg, "=", 2): the flag is what precedes the first "="
ArgFlag(arg) == IF Len(arg) = 0 \/ arg[1] = "=" THEN "" ELSE arg[1]

ArgValue(arg) ==
    IF Len(arg) >= 1 /\ arg[1] = "=" THEN SubSeq(arg, 2, Len(arg))
    ELSE IF Len(arg) >= 2 /\ arg[2] = "=" THEN SubSeq(arg, 3, Len(arg))
    ELSE <<>>

\* m[flag] = value for each argument in turn: a later one replaces an earlier one
RECURSIVE ArgsFromSliceToMap(_)
ArgsFromSliceToMap(args) ==
    IF Len(args) = 0 THEN EmptyMap
    ELSE LET last == args[Len(args)]
             rest == ArgsFromSliceToMap(SubSeq(args, 1, Len(args) - 1))
         IN  MergeMaps(rest, [k \in {ArgFlag(last)} |-> ArgValue(last)])

\* "flag" when the value is empty, "flag=value" otherwise
FormatArg(flag, value) == IF Len(value) = 0 THEN <<flag>> ELSE <<flag, "=">> \o value

\* one string per entry, sorted
RECURSIVE ArgsInOrder(_, _)
ArgsInOrder(m, i) ==
    IF i > Len(FlagOrder) THEN <<>>
    ELSE (IF FlagOrder[i] \in DOMAIN m THEN <<FormatArg(FlagOrder[i], m[FlagOrder[i]])>> ELSE <<>>)
         \o ArgsInOrder(m, i + 1)

ArgsFromMapToSlice(m) == ArgsInOrder(m, 1)

-----------------------------------------------------------------------------
(* The managed object: an apps/v1 DaemonSet, and the values mutate writes  *)

NilSelector == [nil |-> TRUE, matchLabels |-> EmptyMap, matchExpressions |-> <<>>]

NilProbe == [nil |-> TRUE]

\* the zero corev1.Container that make([]corev1.Container, 1) holds
ZeroContainer ==
    [name |-> "", image |-> <<>>, command |-> <<>>, args |-> <<>>,
     volumeMounts |-> <<>>, livenessProbe |-> NilProbe, imagePullPolicy |-> ""]

\* &appsv1.DaemonSet{ObjectMeta: {Name: AgentName, Namespace: AgentNamespace}}
NewDaemonSet ==
    [kind |-> "DaemonSet", name |-> AgentName, namespace |-> AgentNamespace, rv |-> 0,
     labels |-> EmptyMap, selector |-> NilSelector, tplLabels |-> EmptyMap,
     priorityClassName |-> "", tolerations |-> <<>>, nodeSelector |-> EmptyMap,
     serviceAccountName |-> "", volumes |-> <<>>, containers |-> <<>>]

\* Agent.resource before any Define: a nil pointer
NilResource == [kind |-> "nil"]

\* what the store answers for a key it does not hold
NotFound == [kind |-> "absent"]

SelectorLabels == [k \in {"k8s-app"} |-> AgentName]

Tolerations == <<[key |-> "CriticalAddonsOnly", operator |-> "Exists"]>>

NodeSelector == [k \in {"kubernetes.io/os"} |-> "linux"]

TokenVolumes(audience) ==
    <<[name |-> agentTokenName, path |-> agentTokenName, audience |-> audience,
       expirationSeconds |-> 3600, defaultMode |-> 420]>>

VolumeMounts == <<[mountPath |-> "/var/run/secrets/tokens", name |-> agentTokenName]>>

LivenessProbe ==
    [nil |-> FALSE, path |-> "/healthz", port |-> 8134, scheme |-> "HTTP",
     initialDelaySeconds |-> 15, timeoutSeconds |-> 15, periodSeconds |-> 10,
     successThreshold |-> 1, failureThreshold |-> 3]

\* the eight arguments mutate sets after the user's own
BuiltinArgs(addr, port) ==
    [k \in {"-v", "--logtostderr", "--ca-cert", "--proxy-server-host", "--proxy-server-port",
            "--admin-server-port", "--health-server-port", "--service-account-token-path"} |->
        CASE k = "-v" -> <<"8">>
          [] k = "--logtostderr" -> <<"true">>
          [] k = "--ca-cert" -> <<"/var/run/secrets/kubernetes.io/serviceaccount/ca.crt">>
          [] k = "--proxy-server-host" -> <<addr>>
          [] k = "--proxy-server-port" -> <<ToString(port)>>
          [] k = "--admin-server-port" -> <<"8133">>
          [] k = "--health-server-port" -> <<"8134">>
          [] OTHER -> <<"/var/run/secrets/tokens/konnectivity-agent-token">>]

\* AgentArgs with the built-in arguments set first and the user's own laid over them
AgentArgs_UserWins(spec, addr) ==
    ArgsFromMapToSlice(MergeMaps(BuiltinArgs(addr, spec.port), ArgsFromSliceToMap(spec.extraArgs)))

\* args := ArgsFromSliceToMap(ExtraArgs); args[k] = v for each built-in; ArgsFromMapToSlice(args)
AgentArgs(spec, addr) ==
    ArgsFromMapToSlice(MergeMaps(ArgsFromSliceToMap(spec.extraArgs), BuiltinArgs(addr, spec.port)))

\* SizedContainers with the length test dropped: the list is always replaced
SizedContainers_AlwaysFresh(containers) == <<ZeroContainer>>

\* SizedContainers cutting a longer list down to its first entry instead of replacing it
SizedContainers_KeepsFirst(containers) ==
    IF Len(containers) = 0 THEN <<ZeroContainer>> ELSE <<containers[1]>>

\* the container list mutate goes on to fill: resized unless it holds exactly one entry
SizedContainers(containers) ==
    IF Len(containers) # 1 THEN <<ZeroContainer>> ELSE containers

\* MutateContainer appending the arguments to those the container already has
MutateContainer_AppendArgs(c, spec, addr) ==
    [c EXCEPT !.image = <<spec.image, ":", spec.version>>,
              !.name = AgentName,
              !.command = <<"/proxy-agent">>,
              !.args = c.args \o AgentArgs(spec, addr),
              !.volumeMounts = VolumeMounts,
              !.livenessProbe = LivenessProbe]

\* the fields of Containers[0] that mutate assigns, one by one
MutateContainer(c, spec, addr) ==
    [c EXCEPT !.image = <<spec.image, ":", spec.version>>,
              !.name = AgentName,
              !.command = <<"/proxy-agent">>,
              !.args = AgentArgs(spec, addr),
              !.volumeMounts = VolumeMounts,
              !.livenessProbe = LivenessProbe]

\* tenantControlPlane.AssignedControlPlaneAddress(): an error until an address is assigned
AssignedControlPlaneAddress(tcp) ==
    IF tcp.address = "" THEN [address |-> "", err |-> "AddressError"]
    ELSE [address |-> tcp.address, err |-> "nil"]

\* mutate resolving the address only after it has set the object's labels
mutate_LabelsBeforeAddress(obj, tcp) ==
    LET assigned == AssignedControlPlaneAddress(tcp)
        sized == SizedContainers(obj.containers)
        labelled == [obj EXCEPT !.labels = KamajiLabels(tcp.name, GetName)]
    IN  IF assigned.err # "nil" THEN [err |-> assigned.err, obj |-> labelled]
        ELSE [err |-> "nil",
              obj |-> [labelled EXCEPT
                  !.selector = [nil |-> FALSE, matchLabels |-> SelectorLabels,
                                matchExpressions |-> obj.selector.matchExpressions],
                  !.tplLabels = MergeMaps(obj.tplLabels, SelectorLabels),
                  !.priorityClassName = "system-cluster-critical",
                  !.tolerations = Tolerations,
                  !.nodeSelector = NodeSelector,
                  !.serviceAccountName = AgentName,
                  !.volumes = TokenVolumes(tcp.crbName),
                  !.containers = [sized EXCEPT ![1] = MutateContainer(sized[1], tcp.addon, assigned.address)]]]

\* mutate with the template labels merged the other way round: a label the
\* template already carries wins over the selector label
mutate_TemplateLabelsWin(obj, tcp) ==
    LET assigned == AssignedControlPlaneAddress(tcp)
        sized == SizedContainers(obj.containers)
    IN  IF assigned.err # "nil" THEN [err |-> assigned.err, obj |-> obj]
        ELSE [err |-> "nil",
              obj |-> [obj EXCEPT
                  !.labels = KamajiLabels(tcp.name, GetName),
                  !.selector = [nil |-> FALSE, matchLabels |-> SelectorLabels,
                                matchExpressions |-> obj.selector.matchExpressions],
                  !.tplLabels = MergeMaps(SelectorLabels, obj.tplLabels),
                  !.priorityClassName = "system-cluster-critical",
                  !.tolerations = Tolerations,
                  !.nodeSelector = NodeSelector,
                  !.serviceAccountName = AgentName,
                  !.volumes = TokenVolumes(tcp.crbName),
                  !.containers = [sized EXCEPT ![1] = MutateContainer(sized[1], tcp.addon, assigned.address)]]]

\* mutate assigning the selector labels as the template labels instead of merging them in
mutate_ReplacesTemplateLabels(obj, tcp) ==
    LET assigned == AssignedControlPlaneAddress(tcp)
        sized == SizedContainers(obj.containers)
    IN  IF assigned.err # "nil" THEN [err |-> assigned.err, obj |-> obj]
        ELSE [err |-> "nil",
              obj |-> [obj EXCEPT
                  !.labels = KamajiLabels(tcp.name, GetName),
                  !.selector = [nil |-> FALSE, matchLabels |-> SelectorLabels,
                                matchExpressions |-> obj.selector.matchExpressions],
                  !.tplLabels = SelectorLabels,
                  !.priorityClassName = "system-cluster-critical",
                  !.tolerations = Tolerations,
                  !.nodeSelector = NodeSelector,
                  !.serviceAccountName = AgentName,
                  !.volumes = TokenVolumes(tcp.crbName),
                  !.containers = [sized EXCEPT ![1] = MutateContainer(sized[1], tcp.addon, assigned.address)]]]

\* mutate assigning a new ObjectMeta (name, namespace, labels) instead of calling
\* SetLabels: the resourceVersion the read had filled in is gone
mutate_ResetsObjectMeta(obj, tcp) ==
    LET assigned == AssignedControlPlaneAddress(tcp)
        sized == SizedContainers(obj.containers)
    IN  IF assigned.err # "nil" THEN [err |-> assigned.err, obj |-> obj]
        ELSE [err |-> "nil",
              obj |-> [obj EXCEPT
                  !.rv = 0,
                  !.labels = KamajiLabels(tcp.name, GetName),
                  !.selector = [nil |-> FALSE, matchLabels |-> SelectorLabels,
                                matchExpressions |-> obj.selector.matchExpressions],
                  !.tplLabels = MergeMaps(obj.tplLabels, SelectorLabels),
                  !.priorityClassName = "system-cluster-critical",
                  !.tolerations = Tolerations,
                  !.nodeSelector = NodeSelector,
                  !.serviceAccountName = AgentName,
                  !.volumes = TokenVolumes(tcp.crbName),
                  !.containers = [sized EXCEPT ![1] = MutateContainer(sized[1], tcp.addon, assigned.address)]]]

\* the MutateFn: the object it leaves in r.resource and the error it returns
\* (called by CreateOrUpdate only, hence with tcp.addon set)
mutate(obj, tcp) ==
    LET assigned == AssignedControlPlaneAddress(tcp)
        sized == SizedContainers(obj.containers)
    IN  IF assigned.err # "nil" THEN [err |-> assigned.err, obj |-> obj]
        ELSE [err |-> "nil",
              obj |-> [obj EXCEPT
                  !.labels = KamajiLabels(tcp.name, GetName),
                  !.selector = [nil |-> FALSE, matchLabels |-> SelectorLabels,
                                matchExpressions |-> obj.selector.matchExpressions],
                  !.tplLabels = MergeMaps(obj.tplLabels, SelectorLabels),
                  !.priorityClassName = "system-cluster-critical",
                  !.tolerations = Tolerations,
                  !.nodeSelector = NodeSelector,
                  !.serviceAccountName = AgentName,
                  !.volumes = TokenVolumes(tcp.crbName),
                  !.containers = [sized EXCEPT ![1] = MutateContainer(sized[1], tcp.addon, assigned.address)]]]

-----------------------------------------------------------------------------
(* The TenantControlPlane, the store and the values the environment draws  *)

\* Spec.Addons.Konnectivity == nil
NoAddon == [nil |-> TRUE]

\* the add-on specs a user sets: the first redefines a built-in flag
AddonSpecs ==
    { [nil |-> FALSE, image |-> "agent", version |-> "v1", port |-> 8132,
       extraArgs |-> << <<"--logtostderr", "=", "false">> >>],
      [nil |-> FALSE, image |-> "registry/agent", version |-> "v2", port |-> 8131,
       extraArgs |-> << <<"--agent-id", "=", "a", "=", "b">>, <<"--sync-interval">> >>] }

\* the longest ExtraArgs list the argument properties range over
MaxExtraArgs == 2

\* single ExtraArgs entries: two redefine a built-in flag, one names a built-in flag
\* without a value, two give the same other flag different values, one is a bare other flag
ExtraArgChoices ==
    { <<"--logtostderr", "=", "false">>, <<"--proxy-server-host", "=", "198.51.100.7">>, <<"-v">>,
      <<"--agent-id", "=", "a">>, <<"--agent-id", "=", "b">>, <<"--sync-interval">> }

\* every ExtraArgs list of at most MaxExtraArgs entries
ExtraArgLists == UNION { [1..n -> ExtraArgChoices] : n \in 0..MaxExtraArgs }

\* the zero ExternalKubernetesObjectStatus
EmptyStatus == [name |-> "", namespace |-> "", lastUpdate |-> 0]

CrbName == "konnectivity-server"

\* the tenantControlPlane the methods are handed
Tcp == [name |-> TcpName, addon |-> addon, address |-> address, crbName |-> crbName]

AgentKey == <<AgentNamespace, AgentName>>

OtherKey == <<AgentNamespace, "kube-proxy">>

Keys == {AgentKey, OtherKey}

\* client.ObjectKeyFromObject(obj)
ObjectKey(obj) == <<obj.namespace, obj.name>>

\* an object of another owner, which the Agent has no business with
OtherObject ==
    [NewDaemonSet EXCEPT !.name = "kube-proxy", !.rv = 1,
                         !.labels = [k \in {"k8s-app"} |-> "kube-proxy"]]

\* objects another actor may have put under the Agent's key
ForeignObjects ==
    { [NewDaemonSet EXCEPT
          !.selector = [nil |-> FALSE, matchLabels |-> [k \in {"app"} |-> "legacy"],
                        matchExpressions |-> <<"tier in (node)">>],
          !.tplLabels = [k \in {"team", "k8s-app"} |-> IF k = "team" THEN "net" ELSE "legacy"],
          !.containers = << [ZeroContainer EXCEPT !.name = "legacy", !.image = <<"legacy", ":", "v0">>,
                                                  !.imagePullPolicy = "Always"] >>],
      [NewDaemonSet EXCEPT
          !.tplLabels = [k \in {"team"} |-> "net"],
          !.containers = << [ZeroContainer EXCEPT !.name = "a"], [ZeroContainer EXCEPT !.name = "b"] >>] }

\* the API server's defaulting of a container on every write
DefaultContainer(c) == IF c.imagePullPolicy = "" THEN [c EXCEPT !.imagePullPolicy = "IfNotPresent"] ELSE c

\* the object as the store keeps it after a write: defaulted, with a new resourceVersion
Admit(obj, rv) ==
    [obj EXCEPT !.rv = rv,
                !.containers = [i \in 1..Len(obj.containers) |-> DefaultContainer(obj.containers[i])]]

\* what a call leaves in ret
Ret(op, res, deleted, err) == [op |-> op, res |-> res, deleted |-> deleted, err |-> err]

NoCall == Ret("env", "", FALSE, "nil")

\* the reconcile passes that run side by side, one per control plane, each with the
\* Agent it has allocated
Passes == {"pass-1", "pass-2"}

\* the control plane a pass reconciles: its own name, add-on spec and address
FleetTcp(p) ==
    IF p = "pass-1"
    THEN [name |-> "tenant-1", addon |-> CHOOSE s \in AddonSpecs : s.port = 8132,
          address |-> "10.0.0.1", crbName |-> CrbName]
    ELSE [name |-> "tenant-2", addon |-> CHOOSE s \in AddonSpecs : s.port = 8131,
          address |-> "10.0.0.2", crbName |-> CrbName]

Tenants == {FleetTcp(p).name : p \in Passes}

\* what a call of a pass leaves in fleet.last
FleetRet(p, op, err) == [pass |-> p, op |-> op, err |-> err]

\* no pass has called anything: every Agent is the zero value, every tenant store
\* holds another owner's object only
NoFleet ==
    [agent |-> [p \in Passes |-> [resource |-> NilResource, tenantClient |-> "nil"]],
     store |-> [t \in Tenants |-> [k \in Keys |-> IF k = OtherKey THEN OtherObject ELSE NotFound]],
     last |-> FleetRet("none", "env", "nil")]

Init ==
    /\ addon \in {NoAddon} \cup AddonSpecs
    /\ address = ""
    /\ agentStatus = EmptyStatus
    /\ crbName = ""
    /\ now = 1
    /\ resource = NilResource
    /\ tenantClient = "nil"
    /\ store = [k \in Keys |-> IF k = OtherKey THEN OtherObject ELSE NotFound]
    /\ ret = NoCall
    /\ deleteIssued = FALSE
    /\ pc = "idle"
    /\ fleet = NoFleet

-----------------------------------------------------------------------------
(* The gating predicates *)

ShouldStatusBeUpdated(tcp, status) == tcp.addon = NoAddon /\ status.namespace = ""

ShouldCleanup(tcp) == tcp.addon = NoAddon

-----------------------------------------------------------------------------
(* The store's client, and controller-runtime's create-or-update            *)

\* the faults the store may answer a call with
GetFaults == {"none", "get", "write"}

DeleteFaults == {"none", "delete"}

\* controllerutil.CreateOrUpdate(ctx, c, obj, f): Get by obj's key; on not-found
\* mutate and Create; otherwise mutate, compare with what was read, and Update
\* when they differ.  Gives the result, the error, the object left in memory
\* and the object left in the store.
CreateOrUpdatePrimitive(obj, tcp, stored, fault) ==
    LET read == IF stored = NotFound THEN obj ELSE stored
        m == mutate(read, tcp)
        rv == IF stored = NotFound THEN 1 ELSE stored.rv + 1
    IN  IF fault = "get"
            THEN [res |-> "unchanged", err |-> "StoreError", obj |-> obj, stored |-> stored]
        ELSE IF m.err # "nil"
            THEN [res |-> "unchanged", err |-> m.err, obj |-> m.obj, stored |-> stored]
        ELSE IF stored # NotFound /\ m.obj = read
            THEN [res |-> "unchanged", err |-> "nil", obj |-> m.obj, stored |-> stored]
        ELSE IF fault = "write"
            THEN [res |-> "unchanged", err |-> "StoreError", obj |-> m.obj, stored |-> stored]
        ELSE [res |-> IF stored = NotFound THEN "created" ELSE "updated", err |-> "nil",
              obj |-> Admit(m.obj, rv), stored |-> Admit(m.obj, rv)]

\* utilities.GetTenantClient: the tenant's client, or nil and an error
GetTenantClient(fail) ==
    IF fail THEN [client |-> "nil", err |-> "ResolutionError"]
    ELSE [client |-> "tenant", err |-> "nil"]

-----------------------------------------------------------------------------
(* The Agent's methods.  A method leaves pc to its caller.                  *)

\* Define returning on the error before it assigns r.tenantClient
AgentDefine_KeepsClient(fail) ==
    LET got == GetTenantClient(fail)
    IN  /\ resource' = NewDaemonSet
        /\ tenantClient' = IF fail THEN tenantClient ELSE got.client
        /\ ret' = Ret("Define", "", FALSE, got.err)
        /\ UNCHANGED <<addon, address, agentStatus, crbName, now, store, deleteIssued>>

\* Define allocating the object on the first call only and keeping it afterwards
AgentDefine_ReusesResource(fail) ==
    LET got == GetTenantClient(fail)
    IN  /\ resource' = IF resource = NilResource THEN NewDaemonSet ELSE resource
        /\ tenantClient' = got.client
        /\ ret' = Ret("Define", "", FALSE, got.err)
        /\ UNCHANGED <<addon, address, agentStatus, crbName, now, store, deleteIssued>>

\* Define naming the object after the control plane it is handed
AgentDefine_NamedAfterTenant(fail) ==
    LET got == GetTenantClient(fail)
    IN  /\ resource' = [NewDaemonSet EXCEPT !.name = Tcp.name]
        /\ tenantClient' = got.client
        /\ ret' = Ret("Define", "", FALSE, got.err)
        /\ UNCHANGED <<addon, address, agentStatus, crbName, now, store, deleteIssued>>

AgentDefine(fail) ==
    LET got == GetTenantClient(fail)
    IN  /\ resource' = NewDaemonSet
        /\ tenantClient' = got.client
        /\ ret' = Ret("Define", "", FALSE, got.err)
        /\ UNCHANGED <<addon, address, agentStatus, crbName, now, store, deleteIssued>>

\* CreateOrUpdate reading the stored object before it looks at the add-on
AgentCreateOrUpdate_ReadsFirst(fault) ==
    IF tenantClient = "nil" \/ resource = NilResource
    THEN /\ ret' = Ret("CreateOrUpdate", "", FALSE, "panic")
         /\ UNCHANGED <<addon, address, agentStatus, crbName, now, resource,
                        tenantClient, store, deleteIssued>>
    ELSE IF Tcp.addon # NoAddon
    THEN LET key == ObjectKey(resource)
             out == CreateOrUpdatePrimitive(resource, Tcp, store[key], fault)
         IN  /\ out.stored # NotFound => out.stored.rv <= MaxRV
             /\ resource' = out.obj
             /\ store' = [store EXCEPT ![key] = out.stored]
             /\ ret' = Ret("CreateOrUpdate", out.res, FALSE, out.err)
             /\ UNCHANGED <<addon, address, agentStatus, crbName, now,
                            tenantClient, deleteIssued>>
    ELSE /\ resource' = IF store[ObjectKey(resource)] = NotFound THEN resource
                        ELSE store[ObjectKey(resource)]
         /\ ret' = Ret("CreateOrUpdate", "unchanged", FALSE, "nil")
         /\ UNCHANGED <<addon, address, agentStatus, crbName, now,
                        tenantClient, store, deleteIssued>>

\* a nil tenantClient or a nil resource makes the call panic before it reaches the store
AgentCreateOrUpdate(fault) ==
    IF Tcp.addon # NoAddon
    THEN IF tenantClient = "nil" \/ resource = NilResource
         THEN /\ ret' = Ret("CreateOrUpdate", "", FALSE, "panic")
              /\ UNCHANGED <<addon, address, agentStatus, crbName, now, resource,
                             tenantClient, store, deleteIssued>>
         ELSE LET key == ObjectKey(resource)
                  out == CreateOrUpdatePrimitive(resource, Tcp, store[key], fault)
              IN  /\ out.stored # NotFound => out.stored.rv <= MaxRV
                  /\ resource' = out.obj
                  /\ store' = [store EXCEPT ![key] = out.stored]
                  /\ ret' = Ret("CreateOrUpdate", out.res, FALSE, out.err)
                  /\ UNCHANGED <<addon, address, agentStatus, crbName, now,
                                 tenantClient, deleteIssued>>
    ELSE /\ ret' = Ret("CreateOrUpdate", "unchanged", FALSE, "nil")
         /\ UNCHANGED <<addon, address, agentStatus, crbName, now, resource,
                        tenantClient, store, deleteIssued>>

\* CleanUp without the IsNotFound test: every error of Delete is returned
AgentCleanUp_NotFoundIsError(fault) ==
    IF tenantClient = "nil"
    THEN /\ ret' = Ret("CleanUp", "", FALSE, "panic")
         /\ UNCHANGED <<addon, address, agentStatus, crbName, now, resource,
                        tenantClient, store, deleteIssued>>
    ELSE LET key == ObjectKey(resource)
         IN  /\ deleteIssued' = TRUE
             /\ IF fault = "delete"
                THEN /\ ret' = Ret("CleanUp", "", FALSE, "StoreError")
                     /\ store' = store
                ELSE IF store[key] = NotFound
                THEN /\ ret' = Ret("CleanUp", "", FALSE, "NotFound")
                     /\ store' = store
                ELSE /\ ret' = Ret("CleanUp", "", TRUE, "nil")
                     /\ store' = [store EXCEPT ![key] = NotFound]
             /\ UNCHANGED <<addon, address, agentStatus, crbName, now, resource, tenantClient>>

\* CleanUp sending the Delete again when the store fails it, the second one going through
AgentCleanUp_RetriesDelete(fault) ==
    IF tenantClient = "nil"
    THEN /\ ret' = Ret("CleanUp", "", FALSE, "panic")
         /\ UNCHANGED <<addon, address, agentStatus, crbName, now, resource,
                        tenantClient, store, deleteIssued>>
    ELSE LET key == ObjectKey(resource)
         IN  /\ deleteIssued' = TRUE
             /\ IF store[key] = NotFound
                THEN /\ ret' = Ret("CleanUp", "", FALSE, "nil")
                     /\ store' = store
                ELSE /\ ret' = Ret("CleanUp", "", TRUE, "nil")
                     /\ store' = [store EXCEPT ![key] = NotFound]
             /\ UNCHANGED <<addon, address, agentStatus, crbName, now, resource, tenantClient>>

AgentCleanUp(fault) ==
    IF tenantClient = "nil"
    THEN /\ ret' = Ret("CleanUp", "", FALSE, "panic")
         /\ UNCHANGED <<addon, address, agentStatus, crbName, now, resource,
                        tenantClient, store, deleteIssued>>
    ELSE LET key == ObjectKey(resource)
         IN  /\ deleteIssued' = TRUE
             /\ IF fault = "delete"
                THEN /\ ret' = Ret("CleanUp", "", FALSE, "StoreError")
                     /\ store' = store
                ELSE IF store[key] = NotFound
                THEN /\ ret' = Ret("CleanUp", "", FALSE, "nil")
                     /\ store' = store
                ELSE /\ ret' = Ret("CleanUp", "", TRUE, "nil")
                     /\ store' = [store EXCEPT ![key] = NotFound]
             /\ UNCHANGED <<addon, address, agentStatus, crbName, now, resource, tenantClient>>

\* the status update clearing the status only once the object is gone from the store
AgentUpdateTenantControlPlaneStatus_WaitsForDelete ==
    IF Tcp.addon # NoAddon
    THEN IF resource = NilResource
         THEN /\ ret' = Ret("UpdateTenantControlPlaneStatus", "", FALSE, "panic")
              /\ UNCHANGED <<addon, address, agentStatus, crbName, now, resource,
                             tenantClient, store, deleteIssued>>
         ELSE /\ agentStatus' = [name |-> resource.name, namespace |-> resource.namespace,
                                 lastUpdate |-> now]
              /\ ret' = Ret("UpdateTenantControlPlaneStatus", "", FALSE, "nil")
              /\ UNCHANGED <<addon, address, crbName, now, resource, tenantClient,
                             store, deleteIssued>>
    ELSE /\ agentStatus' = IF store[AgentKey] = NotFound THEN EmptyStatus ELSE agentStatus
         /\ ret' = Ret("UpdateTenantControlPlaneStatus", "", FALSE, "nil")
         /\ UNCHANGED <<addon, address, crbName, now, resource, tenantClient,
                        store, deleteIssued>>

\* the status update leaving a status that is already populated as it is
AgentUpdateTenantControlPlaneStatus_KeepsPopulated ==
    IF Tcp.addon # NoAddon
    THEN IF resource = NilResource
         THEN /\ ret' = Ret("UpdateTenantControlPlaneStatus", "", FALSE, "panic")
              /\ UNCHANGED <<addon, address, agentStatus, crbName, now, resource,
                             tenantClient, store, deleteIssued>>
         ELSE /\ agentStatus' = IF agentStatus.namespace # "" THEN agentStatus
                                ELSE [name |-> resource.name, namespace |-> resource.namespace,
                                      lastUpdate |-> now]
              /\ ret' = Ret("UpdateTenantControlPlaneStatus", "", FALSE, "nil")
              /\ UNCHANGED <<addon, address, crbName, now, resource, tenantClient,
                             store, deleteIssued>>
    ELSE /\ agentStatus' = EmptyStatus
         /\ ret' = Ret("UpdateTenantControlPlaneStatus", "", FALSE, "nil")
         /\ UNCHANGED <<addon, address, crbName, now, resource, tenantClient,
                        store, deleteIssued>>

\* the status update reading the name and namespace of r.resource before it looks at the add-on
AgentUpdateTenantControlPlaneStatus_ReadsResourceFirst ==
    IF resource = NilResource
    THEN /\ ret' = Ret("UpdateTenantControlPlaneStatus", "", FALSE, "panic")
         /\ UNCHANGED <<addon, address, agentStatus, crbName, now, resource,
                        tenantClient, store, deleteIssued>>
    ELSE /\ agentStatus' = IF Tcp.addon # NoAddon
                           THEN [name |-> resource.name, namespace |-> resource.namespace,
                                 lastUpdate |-> now]
                           ELSE EmptyStatus
         /\ ret' = Ret("UpdateTenantControlPlaneStatus", "", FALSE, "nil")
         /\ UNCHANGED <<addon, address, crbName, now, resource, tenantClient,
                        store, deleteIssued>>

AgentUpdateTenantControlPlaneStatus ==
    IF Tcp.addon # NoAddon
    THEN IF resource = NilResource
         THEN /\ ret' = Ret("UpdateTenantControlPlaneStatus", "", FALSE, "panic")
              /\ UNCHANGED <<addon, address, agentStatus, crbName, now, resource,
                             tenantClient, store, deleteIssued>>
         ELSE /\ agentStatus' = [name |-> resource.name, namespace |-> resource.namespace,
                                 lastUpdate |-> now]
              /\ ret' = Ret("UpdateTenantControlPlaneStatus", "", FALSE, "nil")
              /\ UNCHANGED <<addon, address, crbName, now, resource, tenantClient,
                             store, deleteIssued>>
    ELSE /\ agentStatus' = EmptyStatus
         /\ ret' = Ret("UpdateTenantControlPlaneStatus", "", FALSE, "nil")
         /\ UNCHANGED <<addon, address, crbName, now, resource, tenantClient,
                        store, deleteIssued>>

-----------------------------------------------------------------------------
(* The environment: the user, the other controllers, other actors on the   *)
(* tenant store, the clock                                                  *)

EnvSetAddon ==
    /\ \E a \in ({NoAddon} \cup AddonSpecs) \ {addon} :
          /\ addon' = a
          /\ deleteIssued' = IF a = NoAddon THEN deleteIssued ELSE FALSE
    /\ ret' = NoCall
    /\ UNCHANGED <<address, agentStatus, crbName, now, resource, tenantClient, store>>

EnvAssignAddress ==
    /\ address = ""
    /\ address' = ResolvedAddress
    /\ ret' = NoCall
    /\ UNCHANGED <<addon, agentStatus, crbName, now, resource, tenantClient, store, deleteIssued>>

EnvRecordClusterRoleBinding ==
    /\ crbName = ""
    /\ crbName' = CrbName
    /\ ret' = NoCall
    /\ UNCHANGED <<addon, address, agentStatus, now, resource, tenantClient, store, deleteIssued>>

EnvTick ==
    /\ now < MaxClock
    /\ now' = now + 1
    /\ ret' = NoCall
    /\ UNCHANGED <<addon, address, agentStatus, crbName, resource, tenantClient, store, deleteIssued>>

EnvWrite ==
    /\ \E obj \in ForeignObjects :
          LET rv == IF store[AgentKey] = NotFound THEN 1 ELSE store[AgentKey].rv + 1
          IN  /\ rv <= MaxRV
              /\ store' = [store EXCEPT ![AgentKey] = Admit(obj, rv)]
    /\ ret' = NoCall
    /\ UNCHANGED <<addon, address, agentStatus, crbName, now, resource, tenantClient, deleteIssued>>

EnvDelete ==
    /\ store[AgentKey] # NotFound
    /\ store' = [store EXCEPT ![AgentKey] = NotFound]
    /\ ret' = NoCall
    /\ UNCHANGED <<addon, address, agentStatus, crbName, now, resource, tenantClient, deleteIssued>>

Env ==
    \/ EnvSetAddon
    \/ EnvAssignAddress
    \/ EnvRecordClusterRoleBinding
    \/ EnvTick
    \/ EnvWrite
    \/ EnvDelete

-----------------------------------------------------------------------------
(* Spec: the methods called in any order, as the Agent's API allows         *)

Define == (\E fail \in BOOLEAN : AgentDefine(fail)) /\ UNCHANGED <<pc, fleet>>

CreateOrUpdate == (\E fault \in GetFaults : AgentCreateOrUpdate(fault)) /\ UNCHANGED <<pc, fleet>>

CleanUp == (\E fault \in DeleteFaults : AgentCleanUp(fault)) /\ UNCHANGED <<pc, fleet>>

UpdateTenantControlPlaneStatus == AgentUpdateTenantControlPlaneStatus /\ UNCHANGED <<pc, fleet>>

Environment == Env /\ UNCHANGED <<pc, fleet>>

Next ==
    \/ Define
    \/ CreateOrUpdate
    \/ CleanUp
    \/ UpdateTenantControlPlaneStatus
    \/ Environment

Spec == Init /\ [][Next]_vars

-----------------------------------------------------------------------------
(* PassSpec: the orchestrator's reconcile passes.  A pass takes the control *)
(* plane as it is when the pass starts, calls Define, then CleanUp when     *)
(* ShouldCleanup says so and CreateOrUpdate otherwise, and updates the      *)
(* status when it completes; an error aborts the pass.  Between passes a    *)
(* status-only pass runs when ShouldStatusBeUpdated asks for one.           *)

PassDefine ==
    /\ pc = "idle"
    /\ \E fail \in BOOLEAN : AgentDefine(fail)
    /\ pc' = IF ret'.err = "nil" THEN "defined" ELSE "idle"
    /\ UNCHANGED fleet

\* the Define of a pass that gets its tenant client
PassDefineResolved ==
    /\ pc = "idle"
    /\ AgentDefine(FALSE)
    /\ pc' = "defined"
    /\ UNCHANGED fleet

PassCreateOrUpdate ==
    /\ pc = "defined"
    /\ ~ShouldCleanup(Tcp)
    /\ \E fault \in GetFaults : AgentCreateOrUpdate(fault)
    /\ pc' = IF ret'.err = "nil" THEN "applied" ELSE "idle"
    /\ UNCHANGED fleet

PassCleanUp ==
    /\ pc = "defined"
    /\ ShouldCleanup(Tcp)
    /\ \E fault \in DeleteFaults : AgentCleanUp(fault)
    /\ pc' = IF ret'.err = "nil" THEN "applied" ELSE "idle"
    /\ UNCHANGED fleet

PassUpdateStatus ==
    /\ pc = "applied"
    /\ AgentUpdateTenantControlPlaneStatus
    /\ pc' = "idle"
    /\ UNCHANGED fleet

StatusOnlyPass ==
    /\ pc = "idle"
    /\ ShouldStatusBeUpdated(Tcp, agentStatus)
    /\ AgentUpdateTenantControlPlaneStatus
    /\ pc' = "idle"
    /\ UNCHANGED fleet

\* the control plane changes between passes; the store and the clock at any time
PassEnvironment ==
    /\ \/ pc = "idle" /\ (EnvSetAddon \/ EnvAssignAddress \/ EnvRecordClusterRoleBinding)
       \/ EnvTick
       \/ EnvWrite
       \/ EnvDelete
    /\ UNCHANGED <<pc, fleet>>

PassNext ==
    \/ PassDefine
    \/ PassCreateOrUpdate
    \/ PassCleanUp
    \/ PassUpdateStatus
    \/ StatusOnlyPass
    \/ PassEnvironment

\* passes keep being scheduled and run to their end, the tenant client is resolved
\* in the end, and a status-only pass that is asked for again and again is run;
\* nothing is assumed of the store's answers or of the user
PassFairness ==
    /\ WF_vars(PassDefine)
    /\ WF_vars(PassDefineResolved)
    /\ WF_vars(PassCreateOrUpdate)
    /\ WF_vars(PassCleanUp)
    /\ WF_vars(PassUpdateStatus)
    /\ SF_vars(StatusOnlyPass)

PassSpec == Init /\ [][PassNext]_vars /\ PassFairness

-----------------------------------------------------------------------------
(* RaceSpec: CreateOrUpdate as the tenant store sees it.  The primitive     *)
(* reads the object (RaceRead: Get, mutate, compare) and, when a write is    *)
(* needed, sends it in a second request (RaceWrite: Create, or Update with   *)
(* the resourceVersion the read returned); other actors' writes and deletes  *)
(* may land in between.  pc is "create" or "update" between the two.  The    *)
(* control plane has the add-on enabled and its address assigned.            *)

RaceInit ==
    /\ addon \in AddonSpecs
    /\ address = ResolvedAddress
    /\ agentStatus = EmptyStatus
    /\ crbName = CrbName
    /\ now = 1
    /\ resource = NilResource
    /\ tenantClient = "nil"
    /\ store = [k \in Keys |-> IF k = OtherKey THEN OtherObject ELSE NotFound]
    /\ ret = NoCall
    /\ deleteIssued = FALSE
    /\ pc = "idle"
    /\ fleet = NoFleet

RaceDefine ==
    /\ pc = "idle"
    /\ \E fail \in BOOLEAN : AgentDefine(fail)
    /\ UNCHANGED <<pc, fleet>>

\* the call up to the write: Get into obj, mutate, and the comparison with what was read
RaceRead ==
    /\ pc = "idle"
    /\ Tcp.addon # NoAddon
    /\ tenantClient # "nil"
    /\ \E fault \in {"none", "get"} :
          LET stored == store[ObjectKey(resource)]
              read == IF stored = NotFound THEN resource ELSE stored
              m == mutate(read, Tcp)
          IN  IF fault = "get"
              THEN /\ ret' = Ret("CreateOrUpdate", "unchanged", FALSE, "StoreError")
                   /\ UNCHANGED <<resource, pc, fleet>>
              ELSE IF m.err # "nil"
              THEN /\ ret' = Ret("CreateOrUpdate", "unchanged", FALSE, m.err)
                   /\ resource' = m.obj
                   /\ UNCHANGED <<pc, fleet>>
              ELSE IF stored # NotFound /\ m.obj = read
              THEN /\ ret' = Ret("CreateOrUpdate", "unchanged", FALSE, "nil")
                   /\ resource' = m.obj
                   /\ UNCHANGED <<pc, fleet>>
              ELSE /\ ret' = Ret("CreateOrUpdate", "", FALSE, "pending")
                   /\ resource' = m.obj
                   /\ pc' = IF stored = NotFound THEN "create" ELSE "update"
                   /\ UNCHANGED fleet
    /\ UNCHANGED <<addon, address, agentStatus, crbName, now, tenantClient, store, deleteIssued>>

\* what the store answers to the write of obj: Create fails when an object is there,
\* Update fails when none is or when obj carries a resourceVersion other than the
\* stored one; an Update that carries none is unconditional
WriteError(step, obj, stored) ==
    IF step = "create"
    THEN IF stored # NotFound THEN "AlreadyExists" ELSE "nil"
    ELSE IF stored = NotFound THEN "NotFound"
    ELSE IF obj.rv # 0 /\ obj.rv # stored.rv THEN "Conflict"
    ELSE "nil"

\* the write and the return of the call
RaceWrite ==
    /\ pc \in {"create", "update"}
    /\ \E fault \in {"none", "write"} :
          LET key == ObjectKey(resource)
              err == IF fault = "write" THEN "StoreError" ELSE WriteError(pc, resource, store[key])
              rv == IF store[key] = NotFound THEN 1 ELSE store[key].rv + 1
          IN  IF err # "nil"
              THEN /\ ret' = Ret("CreateOrUpdate", "unchanged", FALSE, err)
                   /\ UNCHANGED <<resource, store>>
              ELSE /\ rv <= MaxRV
                   /\ ret' = Ret("CreateOrUpdate", IF pc = "create" THEN "created" ELSE "updated",
                                 FALSE, "nil")
                   /\ resource' = Admit(resource, rv)
                   /\ store' = [store EXCEPT ![key] = Admit(resource, rv)]
    /\ pc' = "idle"
    /\ UNCHANGED fleet
    /\ UNCHANGED <<addon, address, agentStatus, crbName, now, tenantClient, deleteIssued>>

\* another actor writes the object: the store gives it a resourceVersion no reader
\* has seen, so above the stored one and above the one a read in progress returned
RaceEnvWrite ==
    /\ \E obj \in ForeignObjects :
          LET held == IF pc = "idle" THEN 0 ELSE resource.rv
              last == IF store[AgentKey] = NotFound THEN 0 ELSE store[AgentKey].rv
              rv == (IF held > last THEN held ELSE last) + 1
          IN  /\ rv <= MaxRV
              /\ store' = [store EXCEPT ![AgentKey] = Admit(obj, rv)]
    /\ ret' = NoCall
    /\ UNCHANGED <<addon, address, agentStatus, crbName, now, resource, tenantClient,
                   deleteIssued, pc, fleet>>

RaceEnvDelete == EnvDelete /\ UNCHANGED <<pc, fleet>>

RaceNext ==
    \/ RaceDefine
    \/ RaceRead
    \/ RaceWrite
    \/ RaceEnvWrite
    \/ RaceEnvDelete

RaceSpec == RaceInit /\ [][RaceNext]_vars

-----------------------------------------------------------------------------
(* FleetSpec: passes for different control planes, interleaved call by call. *)
(* fleet.agent[p] is the Agent of pass p (its resource and tenantClient      *)
(* fields), fleet.store[t] the object store of tenant cluster t; a tenant    *)
(* client is named after the cluster it talks to.  The methods are those of  *)
(* the Agent with the receiver and the control plane as parameters.          *)

\* utilities.GetTenantClient(ctx, r.Client, tenantControlPlane): the client of that
\* control plane's tenant cluster, or nil and an error
FleetTenantClient(tcp, fail) ==
    IF fail THEN [client |-> "nil", err |-> "ResolutionError"]
    ELSE [client |-> tcp.name, err |-> "nil"]

\* Define with every pass's Agent being one and the same object
FleetDefine_SharedAgent(p) ==
    \E fail \in BOOLEAN :
        LET got == FleetTenantClient(FleetTcp(p), fail)
        IN  fleet' = [fleet EXCEPT
                !.agent = [q \in Passes |-> [resource |-> NewDaemonSet, tenantClient |-> got.client]],
                !.last = FleetRet(p, "Define", got.err)]

FleetDefine(p) ==
    \E fail \in BOOLEAN :
        LET got == FleetTenantClient(FleetTcp(p), fail)
        IN  fleet' = [fleet EXCEPT
                !.agent[p] = [resource |-> NewDaemonSet, tenantClient |-> got.client],
                !.last = FleetRet(p, "Define", got.err)]

FleetCreateOrUpdate(p) ==
    LET r == fleet.agent[p]
        tcp == FleetTcp(p)
    IN  IF tcp.addon # NoAddon
        THEN IF r.tenantClient = "nil" \/ r.resource = NilResource
             THEN fleet' = [fleet EXCEPT !.last = FleetRet(p, "CreateOrUpdate", "panic")]
             ELSE \E fault \in GetFaults :
                      LET key == ObjectKey(r.resource)
                          out == CreateOrUpdatePrimitive(r.resource, tcp,
                                                         fleet.store[r.tenantClient][key], fault)
                      IN  /\ out.stored # NotFound => out.stored.rv <= MaxRV
                          /\ fleet' = [fleet EXCEPT
                                 !.agent[p].resource = out.obj,
                                 !.store[r.tenantClient][key] = out.stored,
                                 !.last = FleetRet(p, "CreateOrUpdate", out.err)]
        ELSE fleet' = [fleet EXCEPT !.last = FleetRet(p, "CreateOrUpdate", "nil")]

FleetCleanUp(p) ==
    LET r == fleet.agent[p]
    IN  IF r.tenantClient = "nil"
        THEN fleet' = [fleet EXCEPT !.last = FleetRet(p, "CleanUp", "panic")]
        ELSE \E fault \in DeleteFaults :
                 LET key == ObjectKey(r.resource)
                 IN  IF fault = "delete"
                     THEN fleet' = [fleet EXCEPT !.last = FleetRet(p, "CleanUp", "StoreError")]
                     ELSE fleet' = [fleet EXCEPT
                              !.store[r.tenantClient][key] = NotFound,
                              !.last = FleetRet(p, "CleanUp", "nil")]

FleetInit == Init /\ addon = NoAddon

FleetNext ==
    /\ \E p \in Passes :
          \/ FleetDefine(p)
          \/ FleetCreateOrUpdate(p)
          \/ FleetCleanUp(p)
    /\ UNCHANGED <<addon, address, agentStatus, crbName, now, resource, tenantClient,
                   store, ret, deleteIssued, pc>>

FleetSpec == FleetInit /\ [][FleetNext]_vars

-----------------------------------------------------------------------------
(* ArgsSpec: the argument list mutate computes, over every list of extra    *)
(* arguments.  The control plane has the add-on enabled with ExtraArgs drawn *)
(* from ExtraArgLists and its address assigned; the methods run against it.  *)

ArgsInit ==
    /\ addon \in [nil : {FALSE}, image : {"agent"}, version : {"v1"}, port : {8131, 8132},
                  extraArgs : ExtraArgLists]
    /\ address = ResolvedAddress
    /\ agentStatus = EmptyStatus
    /\ crbName = CrbName
    /\ now = 1
    /\ resource = NilResource
    /\ tenantClient = "nil"
    /\ store = [k \in Keys |-> IF k = OtherKey THEN OtherObject ELSE NotFound]
    /\ ret = NoCall
    /\ deleteIssued = FALSE
    /\ pc = "idle"
    /\ fleet = NoFleet

ArgsNext ==
    \/ Define
    \/ CreateOrUpdate
    \/ CleanUp

ArgsSpec == ArgsInit /\ [][ArgsNext]_vars

-----------------------------------------------------------------------------
(* Properties *)

Populated(status) == status.namespace # ""

\* the objects mutate may be handed: a fresh one, what is in memory, what is stored,
\* and anything another actor may have stored
MutateInputs ==
    {NewDaemonSet} \cup ForeignObjects
    \cup (IF resource = NilResource THEN {} ELSE {resource})
    \cup (IF store[AgentKey] = NotFound THEN {} ELSE {store[AgentKey]})

\* C1: ShouldStatusBeUpdated is true exactly when the add-on is disabled in the spec
\* and the status still shows a populated object (a non-empty recorded namespace).
C1_ShouldReportStatus ==
    ShouldStatusBeUpdated(Tcp, agentStatus) <=> (addon = NoAddon /\ Populated(agentStatus))

\* C2: once the add-on is disabled while the status is populated, and passes keep
\* being scheduled, a state is reached where the status is empty and a Delete of the
\* managed object has been sent (unless the user enables the add-on again first).
C2_DisablementClearsStatus ==
    (addon = NoAddon /\ Populated(agentStatus))
        ~> ((agentStatus = EmptyStatus /\ deleteIssued) \/ addon # NoAddon)

\* C3: CleanUp sends one Delete for the Agent's key: (true, nil) and the object gone
\* when it existed, (false, nil) when the store has none, (false, err) and the store
\* as it was when the Delete fails otherwise; no other key is touched; and a CleanUp
\* that follows a CleanUp which returned nil, the Delete not failing, returns (false, nil).
C3_CleanUpOutcome ==
    [][(ret'.op = "CleanUp" /\ tenantClient # "nil" /\ CleanUp) =>
          /\ \/ /\ store[AgentKey] # NotFound
                /\ ret' = Ret("CleanUp", "", TRUE, "nil")
                /\ store' = [store EXCEPT ![AgentKey] = NotFound]
             \/ /\ store[AgentKey] = NotFound
                /\ ret' = Ret("CleanUp", "", FALSE, "nil")
                /\ store' = store
             \/ /\ ret' = Ret("CleanUp", "", FALSE, "StoreError")
                /\ store' = store
          /\ (ret.op = "CleanUp" /\ ret.err = "nil" /\ ret'.err # "StoreError")
                => ret' = Ret("CleanUp", "", FALSE, "nil")
    ]_vars

\* C3 witness: a CleanUp found the object, deleted it and said so
C3_Witness ==
    /\ ret = Ret("CleanUp", "", TRUE, "nil")
    /\ store[AgentKey] = NotFound
    /\ deleteIssued

\* C4: with the add-on enabled and the address assigned, a CreateOrUpdate that returns
\* no error answers Created when the store had no object, None when the stored object
\* already equals what mutate makes of it, Updated otherwise; what it leaves in the
\* store is what mutate makes of it; and a CreateOrUpdate that follows at once returns
\* None (or the store's read error) and leaves the store as it is.
C4_CreateOrUpdateConverges ==
    [][(ret'.op = "CreateOrUpdate" /\ addon # NoAddon /\ address # "" /\ tenantClient # "nil"
                       /\ resource # NilResource /\ CreateOrUpdate) =>
          /\ ret'.err = "nil" =>
                /\ ret'.res = IF store[AgentKey] = NotFound THEN "created"
                              ELSE IF mutate(store[AgentKey], Tcp).obj = store[AgentKey]
                                   THEN "unchanged" ELSE "updated"
                /\ store'[AgentKey] # NotFound
                /\ mutate(store'[AgentKey], Tcp).obj = store'[AgentKey]
                /\ resource' = store'[AgentKey]
          /\ ret'.err # "nil" => store' = store
          /\ (ret.op = "CreateOrUpdate" /\ ret.err = "nil") =>
                /\ store' = store
                /\ ret' \in {Ret("CreateOrUpdate", "unchanged", FALSE, "nil"),
                             Ret("CreateOrUpdate", "unchanged", FALSE, "StoreError")}
    ]_vars

\* C4 witness: an object of another actor was converged by an update
C4_Witness ==
    /\ ret = Ret("CreateOrUpdate", "updated", FALSE, "nil")
    /\ store[AgentKey] # NotFound
    /\ "team" \in DOMAIN store[AgentKey].tplLabels
    /\ store[AgentKey].containers[1].imagePullPolicy = "Always"

\* C5: with the add-on disabled CreateOrUpdate returns (None, nil) and changes neither
\* the store nor the in-memory object, whatever the store holds, and needs no client.
C5_DisabledCreateOrUpdateIsNoOp ==
    [][(ret'.op = "CreateOrUpdate" /\ addon = NoAddon /\ CreateOrUpdate) =>
          /\ ret' = Ret("CreateOrUpdate", "unchanged", FALSE, "nil")
          /\ UNCHANGED <<addon, address, agentStatus, crbName, now, resource,
                         tenantClient, store, deleteIssued>>
    ]_vars

\* C5 witness: the no-op was returned while the store held the object
C5_Witness ==
    /\ ret = Ret("CreateOrUpdate", "unchanged", FALSE, "nil")
    /\ addon = NoAddon
    /\ resource = NewDaemonSet
    /\ tenantClient # "nil"
    /\ store[AgentKey] # NotFound

\* C6: while no address is assigned, mutate returns the address error and the object
\* it was handed, unchanged; CreateOrUpdate returns that error (or the error of its
\* own read, when that fails first), writes nothing to the store, leaves in memory
\* the fresh or the read object as it was, and does not touch the status.
C6_UnresolvedAddressWritesNothing ==
    /\ [](address = "" =>
            \A obj \in MutateInputs : mutate(obj, Tcp) = [err |-> "AddressError", obj |-> obj])
    /\ [][(ret'.op = "CreateOrUpdate" /\ addon # NoAddon /\ address = "" /\ tenantClient # "nil"
                          /\ resource # NilResource /\ CreateOrUpdate) =>
             /\ ret' \in {Ret("CreateOrUpdate", "unchanged", FALSE, "AddressError"),
                          Ret("CreateOrUpdate", "unchanged", FALSE, "StoreError")}
             /\ store' = store
             /\ agentStatus' = agentStatus
             /\ resource' = IF ret'.err = "AddressError" /\ store[AgentKey] # NotFound
                            THEN store[AgentKey] ELSE resource
       ]_vars

\* C6 witness: the address error came back while an object was stored and the status populated
C6_Witness ==
    /\ ret = Ret("CreateOrUpdate", "unchanged", FALSE, "AddressError")
    /\ address = ""
    /\ store[AgentKey] # NotFound
    /\ Populated(agentStatus)

\* C7: a Define that cannot get the tenant client returns the resolution error and
\* leaves no client behind; and while there is no client no method call changes the
\* store or brings a client back, only a later Define does.
C7_FailedDefineAborts ==
    /\ []((ret.op = "Define" /\ ret.err # "nil") =>
             (ret.err = "ResolutionError" /\ tenantClient = "nil" /\ resource = NewDaemonSet))
    /\ [][(ret'.op = "Define" /\ Define) => (store' = store /\ (ret'.err = "nil" <=> tenantClient' # "nil"))]_vars
    /\ [][(tenantClient = "nil" /\ ret'.op \notin {"env", "Define"}
              /\ (CreateOrUpdate \/ CleanUp \/ UpdateTenantControlPlaneStatus))
             => (store' = store /\ tenantClient' = "nil" /\ deleteIssued' = deleteIssued)]_vars

\* C7 witness: after an earlier pass had written the object, Define failed and the
\* CleanUp tried all the same did not reach the store
C7_Witness ==
    /\ ret = Ret("CleanUp", "", FALSE, "panic")
    /\ resource = NewDaemonSet
    /\ tenantClient = "nil"
    /\ store[AgentKey] # NotFound
    /\ store[AgentKey].labels = KamajiLabels(TcpName, GetName)

\* C8: with the add-on disabled the status update empties the agent status and
\* returns nil whatever came before it (a CleanUp that deleted, found nothing, failed
\* or never ran), and touches nothing else.
C8_DisabledStatusIsCleared ==
    [][(ret'.op = "UpdateTenantControlPlaneStatus" /\ addon = NoAddon
          /\ UpdateTenantControlPlaneStatus) =>
          /\ agentStatus' = EmptyStatus
          /\ ret' = Ret("UpdateTenantControlPlaneStatus", "", FALSE, "nil")
          /\ UNCHANGED <<addon, address, crbName, now, resource, tenantClient, store, deleteIssued>>
    ]_vars

\* C8 witness: the status is empty while the object is still in the store, after a
\* Delete had been sent
C8_Witness ==
    /\ ret = Ret("UpdateTenantControlPlaneStatus", "", FALSE, "nil")
    /\ addon = NoAddon
    /\ agentStatus = EmptyStatus
    /\ deleteIssued
    /\ store[AgentKey] # NotFound
    /\ store[AgentKey].labels = KamajiLabels(TcpName, GetName)

\* C9: with the add-on enabled the status update overwrites the agent status with
\* the fixed name, the fixed namespace and the current time, whatever it held, returns
\* nil, and changes nothing else: not the spec, the store or the role-binding name.
C9_EnabledStatusIsOverwritten ==
    [][(ret'.op = "UpdateTenantControlPlaneStatus" /\ addon # NoAddon /\ resource # NilResource
          /\ UpdateTenantControlPlaneStatus) =>
          /\ agentStatus' = [name |-> AgentName, namespace |-> AgentNamespace, lastUpdate |-> now]
          /\ ret' = Ret("UpdateTenantControlPlaneStatus", "", FALSE, "nil")
          /\ UNCHANGED <<addon, address, crbName, now, resource, tenantClient, store, deleteIssued>>
    ]_vars

\* C9 witness: a status written after the clock had moved on
C9_Witness ==
    /\ ret = Ret("UpdateTenantControlPlaneStatus", "", FALSE, "nil")
    /\ addon # NoAddon
    /\ agentStatus.name = AgentName
    /\ agentStatus.lastUpdate > 1
    /\ crbName # ""

\* C10: with the add-on enabled and the address assigned, mutate applied to what
\* mutate returned gives the same object again, for every object it may be handed.
C10_MutateIdempotent ==
    (addon # NoAddon /\ address # "") =>
        \A obj \in MutateInputs :
            /\ mutate(obj, Tcp).err = "nil"
            /\ mutate(mutate(obj, Tcp).obj, Tcp) = mutate(obj, Tcp)

\* C10 witness: mutate has inputs with no container, with one and with several, and
\* with template labels of their own
C10_Witness ==
    /\ addon # NoAddon
    /\ address # ""
    /\ resource # NilResource
    /\ \E obj \in MutateInputs : Len(obj.containers) = 0
    /\ \E obj \in MutateInputs : Len(obj.containers) = 1 /\ "team" \in DOMAIN obj.tplLabels
    /\ \E obj \in MutateInputs : Len(obj.containers) > 1
    /\ \E obj \in MutateInputs : mutate(obj, Tcp).obj # obj


\* C11: with the add-on enabled and the address assigned, mutate succeeds on every
\* object it may be handed (no selector, a selector with other match-labels, template
\* labels with another value under the selector key) and every match-label of the
\* selector it leaves is a pod template label with the same value.
C11_SelectorWithinTemplateLabels ==
    (addon # NoAddon /\ address # "") =>
        \A obj \in MutateInputs :
            LET m == mutate(obj, Tcp)
            IN  /\ m.err = "nil"
                /\ ~m.obj.selector.nil
                /\ DOMAIN m.obj.selector.matchLabels # {}
                /\ \A k \in DOMAIN m.obj.selector.matchLabels :
                       /\ k \in DOMAIN m.obj.tplLabels
                       /\ m.obj.tplLabels[k] = m.obj.selector.matchLabels[k]

\* C11 witness: CreateOrUpdate has just rewritten an object whose template carried
\* another value under the selector key, and mutate can still be handed an object
\* with no selector, one with other match-labels and one with a conflicting template label
C11_Witness ==
    /\ ret = Ret("CreateOrUpdate", "updated", FALSE, "nil")
    /\ store[AgentKey] # NotFound
    /\ "team" \in DOMAIN store[AgentKey].tplLabels
    /\ store[AgentKey].tplLabels["k8s-app"] = AgentName
    /\ \E obj \in MutateInputs : obj.selector.nil
    /\ \E obj \in MutateInputs :
           ~obj.selector.nil /\ "k8s-app" \notin DOMAIN obj.selector.matchLabels
    /\ \E obj \in MutateInputs :
           "k8s-app" \in DOMAIN obj.tplLabels /\ obj.tplLabels["k8s-app"] # AgentName



\* the flags mutate sets itself
C12_BuiltinFlags ==
    {"-v", "--logtostderr", "--ca-cert", "--proxy-server-host", "--proxy-server-port",
     "--admin-server-port", "--health-server-port", "--service-account-token-path"}

\* the arguments of a list that carry the given flag
C12_Carrying(args, flag) == {i \in 1..Len(args) : ArgFlag(args[i]) = flag}

\* C12: for every enabled spec and every list of extra arguments, the argument list of
\* the container CreateOrUpdate has stored holds each of the eight built-in flags
\* exactly once, with the built-in value (the resolved address as proxy host, the
\* spec's port as proxy port, 8133, 8134, --logtostderr=true, -v=8, the two fixed
\* paths), also when an extra argument names the same flag; an extra argument with
\* another flag is kept, once, with the value its last occurrence gives, and the
\* list holds nothing else.
C12_BuiltinArgsTakePrecedence ==
    (ret.op = "CreateOrUpdate" /\ ret.err = "nil" /\ addon # NoAddon) =>
        /\ store[AgentKey] # NotFound
        /\ Len(store[AgentKey].containers) = 1
        /\ LET args == store[AgentKey].containers[1].args
               extra == addon.extraArgs
               only(flag) == args[CHOOSE i \in C12_Carrying(args, flag) : TRUE]
           IN  /\ \A flag \in C12_BuiltinFlags : Cardinality(C12_Carrying(args, flag)) = 1
               /\ only("-v") = <<"-v", "=", "8">>
               /\ only("--logtostderr") = <<"--logtostderr", "=", "true">>
               /\ only("--ca-cert") =
                      <<"--ca-cert", "=", "/var/run/secrets/kubernetes.io/serviceaccount/ca.crt">>
               /\ only("--proxy-server-host") = <<"--proxy-server-host", "=", address>>
               /\ only("--proxy-server-port") = <<"--proxy-server-port", "=", ToString(addon.port)>>
               /\ only("--admin-server-port") = <<"--admin-server-port", "=", "8133">>
               /\ only("--health-server-port") = <<"--health-server-port", "=", "8134">>
               /\ only("--service-account-token-path") =
                      <<"--service-account-token-path", "=",
                        "/var/run/secrets/tokens/konnectivity-agent-token">>
               /\ \A i \in 1..Len(extra) :
                      ArgFlag(extra[i]) \notin C12_BuiltinFlags =>
                          LET lastOne == CHOOSE j \in 1..Len(extra) :
                                  /\ ArgFlag(extra[j]) = ArgFlag(extra[i])
                                  /\ \A l \in (j + 1)..Len(extra) : ArgFlag(extra[l]) # ArgFlag(extra[i])
                          IN  /\ Cardinality(C12_Carrying(args, ArgFlag(extra[i]))) = 1
                              /\ only(ArgFlag(extra[i])) = extra[lastOne]
               /\ \A i \in 1..Len(args) :
                      ArgFlag(args[i]) \in C12_BuiltinFlags
                          \cup {ArgFlag(extra[j]) : j \in 1..Len(extra)}

\* C12 witness: CreateOrUpdate has stored the agent for a spec whose extra arguments
\* redefine a built-in flag and give another flag two values; the stored container
\* carries the built-in value and the last value of the other flag
C12_Witness ==
    /\ ret = Ret("CreateOrUpdate", "created", FALSE, "nil")
    /\ addon # NoAddon
    /\ addon.extraArgs = << <<"--logtostderr", "=", "false">>, <<"--agent-id", "=", "b">> >>
    /\ store[AgentKey] # NotFound
    /\ Len(store[AgentKey].containers) = 1
    /\ \E i \in 1..Len(store[AgentKey].containers[1].args) :
           store[AgentKey].containers[1].args[i] = <<"--logtostderr", "=", "true">>
    /\ \E i \in 1..Len(store[AgentKey].containers[1].args) :
           store[AgentKey].containers[1].args[i] = <<"--agent-id", "=", "b">>


\* object-level labels another actor may have put on the object
C15_OtherLabels == [k \in {"owner", "kamaji.clastix.io/name"} |-> "someone-else"]

\* C15: with the add-on enabled and the address assigned, mutate merges into the pod
\* template labels: every template label under another key than the selector key is
\* still there with its value, the selector key ends with the agent's name and no
\* other key is added; the object-level labels are replaced by the ownership labels,
\* whatever they were.
C15_TemplateLabelsMerged ==
    (addon # NoAddon /\ address # "") =>
        \A obj \in MutateInputs : \A labels \in {obj.labels, C15_OtherLabels} :
            LET m == mutate([obj EXCEPT !.labels = labels], Tcp).obj
            IN  /\ DOMAIN m.tplLabels = DOMAIN obj.tplLabels \cup {"k8s-app"}
                /\ \A k \in DOMAIN obj.tplLabels \ {"k8s-app"} : m.tplLabels[k] = obj.tplLabels[k]
                /\ m.tplLabels["k8s-app"] = "konnectivity-agent"
                /\ m.labels = KamajiLabels(TcpName, "konnectivity-agent")
                /\ "owner" \notin DOMAIN m.labels

\* C15 witness: CreateOrUpdate has updated an object whose template carried a label
\* of its own and another value under the selector key; the stored object still has
\* the former and has the agent's name under the latter
C15_Witness ==
    /\ ret = Ret("CreateOrUpdate", "updated", FALSE, "nil")
    /\ store[AgentKey] # NotFound
    /\ DOMAIN store[AgentKey].tplLabels = {"team", "k8s-app"}
    /\ store[AgentKey].tplLabels["team"] = "net"
    /\ store[AgentKey].tplLabels["k8s-app"] = AgentName
    /\ store[AgentKey].labels = KamajiLabels(TcpName, AgentName)
    /\ ~store[AgentKey].selector.nil
    /\ store[AgentKey].selector.matchExpressions # <<>>


\* container lists another actor may leave on the object: none, one and two
\* containers, each with a field mutate does not assign
C16_ContainerLists ==
    LET sidecar(n) == [ZeroContainer EXCEPT !.name = n, !.image = <<n, ":", "v0">>,
                                            !.args = << <<"--old">> >>,
                                            !.imagePullPolicy = "Always"]
    IN  { <<>>, <<sidecar("one")>>, <<sidecar("one"), sidecar("two")>> }

\* C16: with the add-on enabled and the address assigned, the object mutate leaves
\* holds exactly one container, with the image "<image>:<version>" of the spec, the
\* agent's name, the fixed command, the fixed liveness probe and the credential
\* volume mount; a single container found on the object keeps the fields mutate does
\* not assign, while with none or several the container is a fresh one.
C16_SingleContainer ==
    (addon # NoAddon /\ address # "") =>
        \A obj \in MutateInputs : \A containers \in {obj.containers} \cup C16_ContainerLists :
            LET m == mutate([obj EXCEPT !.containers = containers], Tcp).obj
                c == m.containers[1]
            IN  /\ Len(m.containers) = 1
                /\ c.image = <<addon.image, ":", addon.version>>
                /\ c.name = "konnectivity-agent"
                /\ c.command = <<"/proxy-agent">>
                /\ c.livenessProbe =
                       [nil |-> FALSE, path |-> "/healthz", port |-> 8134, scheme |-> "HTTP",
                        initialDelaySeconds |-> 15, timeoutSeconds |-> 15, periodSeconds |-> 10,
                        successThreshold |-> 1, failureThreshold |-> 3]
                /\ c.volumeMounts =
                       <<[mountPath |-> "/var/run/secrets/tokens", name |-> agentTokenName]>>
                /\ c.imagePullPolicy =
                       IF Len(containers) = 1 THEN containers[1].imagePullPolicy ELSE ""

\* C16 witness: CreateOrUpdate has updated an object another actor had stored with one
\* container of its own; the stored container is the agent's and keeps that
\* container's pull policy, and mutate can be handed no container and several
C16_Witness ==
    /\ ret = Ret("CreateOrUpdate", "updated", FALSE, "nil")
    /\ store[AgentKey] # NotFound
    /\ Len(store[AgentKey].containers) = 1
    /\ store[AgentKey].containers[1].name = AgentName
    /\ store[AgentKey].containers[1].image = <<addon.image, ":", addon.version>>
    /\ store[AgentKey].containers[1].imagePullPolicy = "Always"
    /\ \E obj \in MutateInputs : Len(obj.containers) = 0
    /\ \E obj \in MutateInputs : Len(obj.containers) > 1


\* C17: CleanUp and CreateOrUpdate attempt each store operation once.  When the store
\* fails the Delete, CleanUp returns that error with deleted = false and the store is
\* as it was; when the store fails the read, CreateOrUpdate returns that error, the
\* store and the in-memory object are as they were; when the store fails the Create
\* or Update a changed object needs, CreateOrUpdate returns that error, reports no
\* operation, and the store is as it was.
C17_SingleAttempt ==
    [][/\ \A fault \in DeleteFaults :
              (ret'.op = "CleanUp" /\ tenantClient # "nil" /\ fault = "delete"
                   /\ pc' = pc /\ AgentCleanUp(fault)) =>
                  /\ ret' = Ret("CleanUp", "", FALSE, "StoreError")
                  /\ store' = store
                  /\ resource' = resource
       /\ \A fault \in GetFaults :
              (ret'.op = "CreateOrUpdate" /\ addon # NoAddon /\ tenantClient # "nil"
                   /\ fault # "none" /\ pc' = pc /\ AgentCreateOrUpdate(fault)) =>
                  /\ store' = store
                  /\ fault = "get" =>
                         /\ ret' = Ret("CreateOrUpdate", "unchanged", FALSE, "StoreError")
                         /\ resource' = resource
                  /\ (/\ fault = "write"
                      /\ address # ""
                      /\ \/ store[AgentKey] = NotFound
                         \/ mutate(store[AgentKey], Tcp).obj # store[AgentKey]) =>
                         ret' = Ret("CreateOrUpdate", "unchanged", FALSE, "StoreError")
    ]_vars

\* C17 witness: a CleanUp whose Delete the store failed has returned the error and the
\* object the Agent had stored is still there
C17_Witness ==
    /\ ret = Ret("CleanUp", "", FALSE, "StoreError")
    /\ tenantClient # "nil"
    /\ store[AgentKey] # NotFound
    /\ store[AgentKey].labels = KamajiLabels(TcpName, AgentName)


\* C18: whatever calls have been made, the in-memory object is named
\* konnectivity-agent in kube-system, whichever control plane spec is in force; the
\* objects in the tenant store that carry the reconciler's ownership labels are at
\* most the one under that name; and no call of Define, CreateOrUpdate, CleanUp or
\* the status update creates, changes or deletes an object under another name.
C18_FixedIdentity ==
    /\ [](/\ resource # NilResource =>
                /\ resource.kind = "DaemonSet"
                /\ resource.name = "konnectivity-agent"
                /\ resource.namespace = "kube-system"
          /\ \A k \in DOMAIN store :
                (store[k] # NotFound /\ store[k].labels = KamajiLabels(TcpName, "konnectivity-agent"))
                    => k = <<"kube-system", "konnectivity-agent">>
          /\ store[<<"kube-system", "konnectivity-agent">>] # NotFound =>
                /\ store[<<"kube-system", "konnectivity-agent">>].name = "konnectivity-agent"
                /\ store[<<"kube-system", "konnectivity-agent">>].namespace = "kube-system")
    /\ [][ret'.op # "env" =>
              /\ DOMAIN store' = DOMAIN store
              /\ \A k \in DOMAIN store \ {<<"kube-system", "konnectivity-agent">>} :
                     store'[k] = store[k]
       ]_vars

\* C18 witness: the Agent has created its object, for the control plane with the
\* second add-on spec, next to another actor's object in the same namespace, and a
\* later CleanUp for it failed
C18_Witness ==
    /\ ret = Ret("CleanUp", "", FALSE, "StoreError")
    /\ addon # NoAddon
    /\ addon.image = "registry/agent"
    /\ store[AgentKey] # NotFound
    /\ store[AgentKey].labels = KamajiLabels(TcpName, AgentName)
    /\ store[AgentKey].containers[1].image # <<addon.image, ":", addon.version>>
    /\ store[OtherKey] = OtherObject
    /\ resource # NilResource


\* C19: every call of Define, failed or not, leaves as the in-memory object one that
\* has the fixed name and namespace and every other field zero: no labels, no
\* selector, no template labels, no volumes, no containers (hence no arguments) and
\* no resourceVersion, whatever an earlier pass had left there.
C19_DefineStartsAfresh ==
    [][(ret'.op = "Define" /\ Define) =>
          /\ resource'.name = "konnectivity-agent"
          /\ resource'.namespace = "kube-system"
          /\ resource'.rv = 0
          /\ resource'.labels = EmptyMap
          /\ resource'.selector.nil
          /\ resource'.tplLabels = EmptyMap
          /\ resource'.priorityClassName = ""
          /\ resource'.tolerations = <<>>
          /\ resource'.nodeSelector = EmptyMap
          /\ resource'.serviceAccountName = ""
          /\ resource'.volumes = <<>>
          /\ resource'.containers = <<>>
          /\ store' = store
    ]_vars

\* C19 witness: a Define has run after a pass that had left the stored object, with its
\* labels, container and resourceVersion, in memory; the object in memory is bare again
C19_Witness ==
    /\ ret.op = "Define"
    /\ resource # NilResource
    /\ resource.rv = 0
    /\ resource.containers = <<>>
    /\ store[AgentKey] # NotFound
    /\ store[AgentKey].rv > 1
    /\ store[AgentKey].labels = KamajiLabels(TcpName, AgentName)
    /\ Len(store[AgentKey].containers) = 1


\* the status update with the add-on disabled: nil and a cleared status, whatever the
\* Agent's fields hold
C20_DisabledStatusNeedsNothing ==
    (ret.op = "UpdateTenantControlPlaneStatus" /\ addon = NoAddon) =>
        (ret.err = "nil" /\ agentStatus = EmptyStatus)

\* C20 as claimed: the status update with the add-on disabled returns nil and leaves
\* the status cleared whatever the Agent holds, and the status update with the add-on
\* enabled, CreateOrUpdate with the add-on enabled and CleanUp are well-defined exactly
\* when the last Define succeeded, i.e. left a tenant client.
C20_NeedSuccessfulDefine ==
    /\ C20_DisabledStatusNeedsNothing
    /\ (\/ ret.op = "UpdateTenantControlPlaneStatus" /\ addon # NoAddon
        \/ ret.op = "CreateOrUpdate" /\ addon # NoAddon
        \/ ret.op = "CleanUp")
           => (ret.err # "panic" <=> tenantClient # "nil")

\* C20: the status update with the add-on disabled returns nil and leaves the status
\* cleared whatever the Agent holds; the status update with the add-on enabled is
\* well-defined exactly when a Define has been called, successful or not, for it reads
\* the target object only; CreateOrUpdate with the add-on enabled and CleanUp are
\* well-defined exactly when the last Define succeeded, i.e. left a tenant client, and
\* then the target object is there too.
C20_NeedDefine ==
    /\ C20_DisabledStatusNeedsNothing
    /\ (ret.op = "UpdateTenantControlPlaneStatus" /\ addon # NoAddon)
           => (ret.err # "panic" <=> resource # NilResource)
    /\ ((ret.op = "CreateOrUpdate" /\ addon # NoAddon) \/ ret.op = "CleanUp")
           => (ret.err # "panic" <=> tenantClient # "nil")
    /\ tenantClient # "nil" => resource # NilResource

\* C20 witness: Define has failed, leaving a target object and no tenant client, and
\* the status update with the add-on enabled has then recorded the object's name and
\* namespace and returned nil
C20_Witness ==
    /\ ret = Ret("UpdateTenantControlPlaneStatus", "", FALSE, "nil")
    /\ addon # NoAddon
    /\ tenantClient = "nil"
    /\ resource = NewDaemonSet
    /\ agentStatus.name = AgentName
    /\ agentStatus.namespace = AgentNamespace


\* C13: CreateOrUpdate mutates what it has just read.  When its write goes through,
\* nothing having happened to the stored object since the read, the fields of that
\* object that mutate does not assign are in the stored object still: the template
\* labels under other keys than the selector key, the selector's match-expressions,
\* and the pull policy of a single container.  When another actor has changed the
\* stored object between the read and the write (written or deleted the object read,
\* or stored one where the read found none), the write fails, the call returns the
\* error and the store keeps what the other actor left.
C13_ExternalEditsNotLost ==
    [][(pc # "idle" /\ pc' = "idle" /\ ret'.op = "CreateOrUpdate") =>
          /\ (ret.op = "env" /\ (pc = "update" \/ store[AgentKey] # NotFound)) =>
                (ret'.err # "nil" /\ store' = store)
          /\ (pc = "update" /\ ret'.err = "nil") =>
                /\ ret.op # "env"
                /\ ret'.res = "updated"
                /\ \A k \in DOMAIN store[AgentKey].tplLabels \ {"k8s-app"} :
                       /\ k \in DOMAIN store'[AgentKey].tplLabels
                       /\ store'[AgentKey].tplLabels[k] = store[AgentKey].tplLabels[k]
                /\ store'[AgentKey].selector.matchExpressions
                       = store[AgentKey].selector.matchExpressions
                /\ Len(store[AgentKey].containers) = 1 =>
                       store'[AgentKey].containers[1].imagePullPolicy
                           = store[AgentKey].containers[1].imagePullPolicy
    ]_vars

\* C13 witness: CreateOrUpdate had read an object to update, another actor then wrote
\* the object, and the Update came back with a conflict; the other actor's object,
\* with its own labels and container, is what the store holds
C13_Witness ==
    /\ ret = Ret("CreateOrUpdate", "unchanged", FALSE, "Conflict")
    /\ pc = "idle"
    /\ store[AgentKey] # NotFound
    /\ store[AgentKey].rv # resource.rv
    /\ store[AgentKey].labels = EmptyMap
    /\ store[AgentKey].containers[1].name # AgentName
    /\ resource.labels = KamajiLabels(TcpName, AgentName)


\* C14: with each pass holding its own Agent, a call made by one pass leaves the other
\* pass's target object and tenant client as they were and changes no store but the
\* one of its own control plane's tenant, however the calls of the passes interleave;
\* the object a pass stores is the desired state of its own control plane (that
\* control plane's ownership labels, image and address); so every tenant store holds,
\* under the Agent's key, nothing or its own control plane's object.
C14_PassesDoNotInterfere ==
    /\ [](\A p \in Passes :
             LET own == fleet.store[FleetTcp(p).name][AgentKey]
             IN  own # NotFound =>
                     /\ own.labels = KamajiLabels(FleetTcp(p).name, AgentName)
                     /\ own.containers[1].image
                            = <<FleetTcp(p).addon.image, ":", FleetTcp(p).addon.version>>
                     /\ \E i \in 1..Len(own.containers[1].args) :
                            own.containers[1].args[i]
                                = <<"--proxy-server-host", "=", FleetTcp(p).address>>)
    /\ [][\A p \in Passes :
              fleet'.last.pass = p =>
                  /\ \A q \in Passes \ {p} : fleet'.agent[q] = fleet.agent[q]
                  /\ \A t \in Tenants \ {FleetTcp(p).name} : fleet'.store[t] = fleet.store[t]
                  /\ fleet'.agent[p].tenantClient \in {"nil", FleetTcp(p).name}
       ]_vars

\* C14 witness: both passes have called Define before either wrote, the first pass has
\* since created its object, and the second pass has just created its own in the
\* other tenant: each store holds the object of its own control plane
C14_Witness ==
    /\ fleet.last = FleetRet("pass-2", "CreateOrUpdate", "nil")
    /\ fleet.store["tenant-1"][AgentKey] # NotFound
    /\ fleet.store["tenant-2"][AgentKey] # NotFound
    /\ fleet.store["tenant-1"][AgentKey].rv = 1
    /\ fleet.store["tenant-2"][AgentKey].rv = 1
    /\ fleet.store["tenant-1"][AgentKey].labels["kamaji.clastix.io/name"] = "tenant-1"
    /\ fleet.store["tenant-2"][AgentKey].labels["kamaji.clastix.io/name"] = "tenant-2"
    /\ fleet.store["tenant-1"][AgentKey].containers[1].image
           # fleet.store["tenant-2"][AgentKey].containers[1].image
    /\ fleet.agent["pass-1"].tenantClient = "tenant-1"
    /\ fleet.agent["pass-2"].tenantClient = "tenant-2"

====
